---- MODULE Spec2Model ----
(***************************************************************************)
(* Model of src/index.tsx (newest revision, lines 1-436): the stream loop  *)
(* of the form submit handler, which separates the %%JSON-LD%% and         *)
(* %%META%% blocks from the streamed prose, and the placeholder resolver   *)
(* generateAndPlaceImagesParallel.                                         *)
(*                                                                         *)
(* Text is a sequence of atoms.  An atom is a run of characters that the   *)
(* model never cuts: a delimiter literal is spelled by three atoms         *)
(* ("%%", its name, "%%"), so two delimiters can overlap on "%%" as the    *)
(* source literals can, and a fragment boundary can fall inside a          *)
(* delimiter.  Indices are JavaScript's: 0-based, -1 for "not found".      *)
(***************************************************************************)
EXTENDS Integers, Sequences, FiniteSets, TLC

VARIABLES
    stream,                  \* the text the model will send (response, line 115)
    pos,                     \* atoms of stream already delivered as chunks
    buffer,                  \* let buffer (line 125)
    articleJsonLd,           \* module state (line 37)
    articleMetaDescription,  \* module state (line 38)
    cleanText,               \* last text handed to marked.parse (lines 172-178)
    metaShown,               \* metaDescriptionContainer visible (lines 105, 167)
    jsonLdExtractions,       \* times the branch of line 154 was taken
    metaExtractions,         \* times the branch of line 161 was taken
    split,                   \* the response came in more than one chunk
    outputDiv,               \* outputDiv.innerHTML as a sequence of nodes
    finalHtml,               \* const finalHtml (line 220)
    tasks,                   \* the per-token tasks of line 233
    resolverRuns,            \* calls of generateAndPlaceImagesParallel in this request
    generateBtnDisabled,     \* generateBtn.disabled (lines 108, 213)
    loadingHidden,           \* loadingIndicator is hidden (lines 102, 135, 211)
    statsHidden,             \* outputStats is hidden (lines 104, 201)
    actionsHidden,           \* outputActions is hidden (lines 103, 202)
    metricsRuns,             \* calls of updateMetrics in this request (line 198)
    keyword,                 \* the primary-keyword field of the last submission
    apiKey,                  \* process.env.API_KEY is set (line 92)
    submits,                 \* submit events so far
    streamRequests,          \* calls of generateContentStream so far (line 115)
    innerText,               \* a text given to calculateReadability (line 303)
    readability,             \* what calculateReadability returned for it
    innerHTML,                    \* a markup given to calculateSeoScore (line 304)
    seo,                     \* what calculateSeoScore returned for it
    formData,                \* the form fields read by constructPrompt
    prompt,                  \* what constructPrompt returned for them
    pc                       \* position of the submit handler

streamVars == <<stream, pos, buffer, articleJsonLd, articleMetaDescription,
                cleanText, metaShown, jsonLdExtractions, metaExtractions,
                split>>

imageVars == <<outputDiv, finalHtml, tasks, resolverRuns>>

uiVars == <<generateBtnDisabled, loadingHidden, statsHidden, actionsHidden,
            metricsRuns>>

formVars == <<keyword, apiKey, submits, streamRequests>>

metricVars == <<innerText, readability, innerHTML, seo>>

promptVars == <<formData, prompt>>

vars == <<streamVars, imageVars, uiVars, formVars, metricVars, promptVars, pc>>

----------------------------------------------------------------------------
(* Bounds of the model *)

\* a response is a concatenation of at most MaxItems items
MaxItems == 3

\* the rendered markup holds at most MaxNodes nodes
MaxNodes == 2

----------------------------------------------------------------------------
(* Delimiter literals, lines 126-129 *)

jsonLdStart == <<"%%", "JSON-LD-START", "%%">>
jsonLdEnd == <<"%%", "JSON-LD-END", "%%">>
metaStart == <<"%%", "META-START", "%%">>
metaEnd == <<"%%", "META-END", "%%">>

\* null of `string | null`; no text is equal to it
Null == <<"null">>

\* readability before calculateReadability has been applied
NotComputed == [kind |-> "none", num |-> 0, den |-> 1]

\* the fields of the form other than the keyword, all left empty
EmptyForm == [multimediaCount |-> <<>>, addExternal |-> FALSE,
              linkCount |-> <<>>, sitemap |-> <<>>, slang |-> <<>>]

\* JavaScript truthiness of a `string | null`: null and "" are falsy
Truthy(v) == v # Null /\ v # <<>>

----------------------------------------------------------------------------
(* String.prototype operations used by the stream loop *)

Min(a, b) == IF a < b THEN a ELSE b
Max(a, b) == IF a > b THEN a ELSE b

\* s.substring(a, b): both ends clamped to [0, length], swapped when a > b
Substring(s, a, b) ==
    LET ca == Max(0, Min(a, Len(s)))
        cb == Max(0, Min(b, Len(s)))
        lo == Min(ca, cb)
        hi == Max(ca, cb)
    IN  SubSeq(s, lo + 1, hi)

\* d occurs in s at 0-based index i
OccursAt(s, d, i) ==
    /\ i >= 0
    /\ i + Len(d) <= Len(s)
    /\ \A k \in 1..Len(d) : s[i + k] = d[k]

\* s.indexOf(d, from): the first index >= from where d occurs, or -1
RECURSIVE Scan(_, _, _)
Scan(s, d, i) ==
    IF i + Len(d) > Len(s) THEN -1
    ELSE IF \A k \in 1..Len(d) : s[i + k] = d[k] THEN i
    ELSE Scan(s, d, i + 1)

IndexOfFrom(s, d, from) == Scan(s, d, Max(0, from))

\* s.indexOf(d)
IndexOf(s, d) == IndexOfFrom(s, d, 0)

\* s.includes(d)
Includes(s, d) == IndexOf(s, d) # -1

IsSpace(a) == a = " "

\* s.trim()
Trim(s) ==
    LET keep == {i \in 1..Len(s) : ~IsSpace(s[i])}
    IN  IF keep = {} THEN <<>>
        ELSE LET lo == CHOOSE i \in keep : \A j \in keep : i <= j
                 hi == CHOOSE i \in keep : \A j \in keep : i >= j
             IN  SubSeq(s, lo, hi)

\* s.replace(pat, "") with a string pattern: the first occurrence of pat is
\* removed; the empty pattern matches at 0 and removes nothing
ReplaceFirst(s, pat) ==
    LET i == IndexOf(s, pat)
    IN  IF i = -1 THEN s
        ELSE SubSeq(s, 1, i) \o SubSeq(s, i + Len(pat) + 1, Len(s))

\* s.replace(/<start>[\s\S]*?<end>/g, ''): left to right, each start
\* delimiter up to the nearest end delimiter after it is removed
RECURSIVE ReplacePairs(_, _, _)
ReplacePairs(s, start, end) ==
    LET i == IndexOf(s, start)
        j == IF i = -1 THEN -1 ELSE IndexOfFrom(s, end, i + Len(start))
    IN  IF j = -1 THEN s
        ELSE SubSeq(s, 1, i)
             \o ReplacePairs(SubSeq(s, j + Len(end) + 1, Len(s)), start, end)

\* s.replace(/<start>[\s\S]*/g, ''): everything from the first start
\* delimiter on is removed
ReplaceTail(s, start) ==
    LET i == IndexOf(s, start)
    IN  IF i = -1 THEN s ELSE SubSeq(s, 1, i)

----------------------------------------------------------------------------
(* The body of the stream loop, lines 149-178 *)

\* Extract with `+ jsonLdStart.length` (lines 155, 162) forgotten
ExtractFromDelimiter(buf, startD, endD) ==
    LET start == IndexOf(buf, startD)
        end == IndexOf(buf, endD)
        region == Substring(buf, IndexOf(buf, startD), end + Len(endD))
    IN  [value |-> Trim(Substring(buf, start, end)),
         buffer |-> ReplaceFirst(buf, region)]

\* lines 155-158 and 162-168: one extraction from buf; the guard is the
\* caller's
Extract(buf, startD, endD) ==
    LET start == IndexOf(buf, startD) + Len(startD)
        end == IndexOf(buf, endD)
        region == Substring(buf, IndexOf(buf, startD), end + Len(endD))
    IN  [value |-> Trim(Substring(buf, start, end)),
         buffer |-> ReplaceFirst(buf, region)]

\* line 154
JsonLdGuard(value, buf) == ~Truthy(value) /\ Includes(buf, jsonLdEnd)

\* a mutation of the guard of line 161: the start delimiter is awaited
MetaGuardOnStart(value, buf) == ~Truthy(value) /\ Includes(buf, metaStart)

\* line 161
MetaGuard(value, buf) == ~Truthy(value) /\ Includes(buf, metaEnd)

\* Sanitize without the two replacements of lines 175-176
SanitizePairsOnly(buf) ==
    ReplacePairs(ReplacePairs(buf, jsonLdStart, jsonLdEnd), metaStart, metaEnd)

\* lines 172-176
Sanitize(buf) ==
    ReplaceTail(
        ReplaceTail(
            ReplacePairs(ReplacePairs(buf, jsonLdStart, jsonLdEnd),
                         metaStart, metaEnd),
            jsonLdStart),
        metaStart)

\* OnChunk with line 161 written as `else if`: no META extraction in an
\* iteration that extracted JSON-LD
OnChunkElseIf(buf0, jl0, md0, frag) ==
    LET b1 == buf0 \o frag
        doJ == JsonLdGuard(jl0, b1)
        xj == Extract(b1, jsonLdStart, jsonLdEnd)
        jl1 == IF doJ THEN xj.value ELSE jl0
        b2 == IF doJ THEN xj.buffer ELSE b1
        doM == ~doJ /\ MetaGuard(md0, b2)
        xm == Extract(b2, metaStart, metaEnd)
        md1 == IF doM THEN xm.value ELSE md0
        b3 == IF doM THEN xm.buffer ELSE b2
    IN  [buffer |-> b3, articleJsonLd |-> jl1, articleMetaDescription |-> md1,
         cleanText |-> Sanitize(b3), tookJsonLd |-> doJ, tookMeta |-> doM]

\* lines 149-178 for one chunk whose text is frag
OnChunk(buf0, jl0, md0, frag) ==
    LET b1 == buf0 \o frag
        doJ == JsonLdGuard(jl0, b1)
        xj == Extract(b1, jsonLdStart, jsonLdEnd)
        jl1 == IF doJ THEN xj.value ELSE jl0
        b2 == IF doJ THEN xj.buffer ELSE b1
        doM == MetaGuard(md0, b2)
        xm == Extract(b2, metaStart, metaEnd)
        md1 == IF doM THEN xm.value ELSE md0
        b3 == IF doM THEN xm.buffer ELSE b2
    IN  [buffer |-> b3, articleJsonLd |-> jl1, articleMetaDescription |-> md1,
         cleanText |-> Sanitize(b3), tookJsonLd |-> doJ, tookMeta |-> doM]

----------------------------------------------------------------------------
(* outputDiv.innerHTML: a sequence of nodes *)

\* a run of rendered text
TextNode(a) == [t |-> "text", kind |-> "", s |-> a, id |-> -1]

\* the text "[kind: caption]"
Bracket(kind, caption) == [t |-> "bracket", kind |-> kind, s |-> caption, id |-> -1]

\* <figure id="img-gen-i" class="image-placeholder loading">, line 230
Loading(i) == [t |-> "loading", kind |-> "", s |-> "", id |-> i]

\* renderImage, lines 294-299: a figure without id, the caption as alt text
renderImage(caption) == [t |-> "image", kind |-> "", s |-> caption, id |-> -1]

\* the figure img-gen-i after lines 282-286: not loading, showing a reason
Unavailable(i, message) == [t |-> "failed", kind |-> "", s |-> message, id |-> i]

\* the error box of lines 206-210
ErrorBox == [t |-> "error-box", kind |-> "", s |-> "Deployment Sync Failed", id |-> -1]

\* atoms of text that spell a bracketed "[kind: caption]"
BracketTexts == {"[Image: x]", "[Featured Image: y]", "[Video: z]"}

\* the kind and the caption such an atom spells
BracketOf(a) ==
    CASE a = "[Image: x]" -> Bracket("Image", "x")
      [] a = "[Featured Image: y]" -> Bracket("Featured Image", "y")
      [] a = "[Video: z]" -> Bracket("Video", "z")

\* marked.parse(cleanText), line 178: the renderer is a collaborator of the
\* program; each atom of the text becomes a run of rendered text, and a
\* bracketed text stays the text it is
MarkedParse(text) ==
    [i \in 1..Len(text) |->
        IF text[i] \in BracketTexts THEN BracketOf(text[i]) ELSE TextNode(text[i])]

----------------------------------------------------------------------------
(* The texts a response may consist of *)

\* a response is made of prose ("a", " "), of delimiters, and of whole
\* blocks whose content ("c") has white space around it
Items ==
    { <<"a">>, <<" ">>,
      jsonLdStart, jsonLdEnd, metaStart, metaEnd,
      jsonLdStart \o <<" ", "c">> \o jsonLdEnd,
      metaStart \o <<"c", " ">> \o metaEnd }

RECURSIVE TextsUpTo(_)
TextsUpTo(n) ==
    IF n = 0 THEN {<<>>}
    ELSE LET T == TextsUpTo(n - 1)
         IN  T \cup {t \o i : t \in T, i \in Items}

Texts == TextsUpTo(MaxItems)

----------------------------------------------------------------------------
(* The stream loop *)

InitStream ==
    /\ stream \in Texts
    /\ pos = 0
    /\ buffer = <<>>
    /\ articleJsonLd = Null
    /\ articleMetaDescription = Null
    /\ cleanText = <<>>
    /\ metaShown = FALSE
    /\ jsonLdExtractions = 0
    /\ metaExtractions = 0
    /\ split = FALSE
    /\ outputDiv = <<>>
    /\ finalHtml = <<>>
    /\ tasks = <<>>
    /\ resolverRuns = 0
    /\ generateBtnDisabled = TRUE
    /\ loadingHidden = FALSE
    /\ statsHidden = TRUE
    /\ actionsHidden = TRUE
    /\ metricsRuns = 0
    /\ keyword = <<"k">>
    /\ apiKey = TRUE
    /\ submits = 1
    /\ streamRequests = 1
    /\ innerText = <<>>
    /\ readability = NotComputed
    /\ innerHTML = <<>>
    /\ seo = NotComputed
    /\ formData = EmptyForm
    /\ prompt = <<>>
    /\ pc = "stream"

\* one iteration of `for await (const chunk of response)`, lines 133-179
Chunk ==
    /\ pc = "stream"
    /\ \E n \in 1..(Len(stream) - pos) :
         \E r \in {OnChunk(buffer, articleJsonLd, articleMetaDescription,
                           SubSeq(stream, pos + 1, pos + n))} :
             /\ pos' = pos + n
             /\ buffer' = r.buffer
             /\ articleJsonLd' = r.articleJsonLd
             /\ articleMetaDescription' = r.articleMetaDescription
             /\ cleanText' = r.cleanText
             /\ metaShown' = (metaShown \/ r.tookMeta)
             /\ jsonLdExtractions' = jsonLdExtractions + (IF r.tookJsonLd THEN 1 ELSE 0)
             /\ metaExtractions' = metaExtractions + (IF r.tookMeta THEN 1 ELSE 0)
             /\ split' = (pos > 0)
             /\ outputDiv' = MarkedParse(r.cleanText)
    /\ loadingHidden' = TRUE
    /\ UNCHANGED <<stream, finalHtml, tasks, resolverRuns, pc, formVars, metricVars, promptVars>>
    /\ UNCHANGED <<generateBtnDisabled, statsHidden, actionsHidden, metricsRuns>>

\* a mutation of line 108: the button is left enabled
LeftEnabled == FALSE

\* line 108: generateBtn.disabled = true
DisabledAtReset == TRUE

\* a mutation of line 213: the button is left as it is
LeftDisabled == TRUE

\* line 213: generateBtn.disabled = false
DisabledAtFinally == FALSE

\* a mutation of line 133: the loop is left after any chunk
IteratorDoneEarly(response, delivered) == TRUE

\* line 133: `for await` has consumed every chunk of the response
IteratorDone(response, delivered) == delivered = Len(response)

\* the iterator is exhausted: the loop is left at line 179 without an
\* exception and the handler goes on at line 181, up to the call of line
\* 199 (a request without competitor analysis has no grounding sources)
StreamEnd ==
    /\ pc = "stream"
    /\ IteratorDone(stream, pos)
    /\ metricsRuns' = metricsRuns + 1
    /\ pc' = "streamed"
    /\ UNCHANGED <<streamVars, imageVars, formVars, metricVars, promptVars>>
    /\ UNCHANGED <<generateBtnDisabled, loadingHidden, statsHidden, actionsHidden>>

\* a mutation of lines 204-211: after the catch block the handler goes on
\* with the statements that follow the loop
AfterCatchResumes == "streamed"

\* the catch block is the last block of the try statement but finally: the
\* statements of lines 181-202 are skipped
AfterCatch == "failed"

\* generateContentStream rejects or the iterator throws: catch and finally,
\* lines 204-215; the response is abandoned and the locals of the try block
\* go out of scope
StreamThrow ==
    /\ pc \in {"opening", "stream"}
    /\ loadingHidden' = TRUE
    /\ generateBtnDisabled' = DisabledAtFinally
    /\ outputDiv' = <<ErrorBox>>
    /\ pc' = AfterCatch
    /\ stream' = <<>>
    /\ pos' = 0
    /\ buffer' = <<>>
    /\ cleanText' = <<>>
    /\ split' = FALSE
    /\ UNCHANGED <<articleJsonLd, articleMetaDescription, metaShown,
                   jsonLdExtractions, metaExtractions, finalHtml, tasks>>
    /\ UNCHANGED <<statsHidden, actionsHidden, metricsRuns, resolverRuns, formVars, metricVars, promptVars>>

NextStream == Chunk \/ StreamEnd \/ StreamThrow

SpecStream == InitStream /\ [][NextStream]_vars

----------------------------------------------------------------------------
(* The stream loop of the older submit handler, lines 1475-1517.  What      *)
(* comes before and after the loop (lines 1433-1474 and 1519-1553) is as in *)
(* the newest handler                                                       *)

\* lines 1491-1494 and 1499-1508: one extraction from buf; the guard is the
\* caller's, and everything up to the end delimiter leaves the buffer
ExtractOlder(buf, startD, endD) ==
    LET startIndex == IndexOf(buf, startD) + Len(startD)
        endIndex == IndexOf(buf, endD)
    IN  [value |-> Trim(Substring(buf, startIndex, endIndex)),
         buffer |-> Substring(buf, endIndex + Len(endD), Len(buf))]

\* lines 1489-1516 for one chunk whose text is frag
OnChunkOlder(buf0, jl0, md0, frag) ==
    LET b1 == buf0 \o frag
        doJ == ~Truthy(jl0) /\ Includes(b1, jsonLdEnd)
        xj == ExtractOlder(b1, jsonLdStart, jsonLdEnd)
        jl1 == IF doJ THEN xj.value ELSE jl0
        b2 == IF doJ THEN xj.buffer ELSE b1
        doM == ~Truthy(md0) /\ Includes(b2, metaEnd)
        xm == ExtractOlder(b2, metaStart, metaEnd)
        md1 == IF doM THEN xm.value ELSE md0
        b3 == IF doM THEN xm.buffer ELSE b2
    IN  [buffer |-> b3, articleJsonLd |-> jl1, articleMetaDescription |-> md1,
         tookJsonLd |-> doJ, tookMeta |-> doM,
         rendered |-> \/ Truthy(jl1) /\ Truthy(md1)
                      \/ ~Includes(b3, jsonLdStart) /\ ~Includes(b3, metaStart)]

\* one iteration of `for await (const chunk of response)`, lines 1475-1517;
\* cleanText is the text last given to marked.parse (line 1515)
ChunkOlder ==
    /\ pc = "stream"
    /\ \E n \in 1..(Len(stream) - pos) :
         \E r \in {OnChunkOlder(buffer, articleJsonLd, articleMetaDescription,
                                SubSeq(stream, pos + 1, pos + n))} :
             /\ pos' = pos + n
             /\ buffer' = r.buffer
             /\ articleJsonLd' = r.articleJsonLd
             /\ articleMetaDescription' = r.articleMetaDescription
             /\ cleanText' = (IF r.rendered THEN r.buffer ELSE cleanText)
             /\ metaShown' = (metaShown \/ r.tookMeta)
             /\ jsonLdExtractions' = jsonLdExtractions + (IF r.tookJsonLd THEN 1 ELSE 0)
             /\ metaExtractions' = metaExtractions + (IF r.tookMeta THEN 1 ELSE 0)
             /\ split' = (pos > 0)
             /\ outputDiv' = (IF r.rendered THEN MarkedParse(r.buffer) ELSE outputDiv)
    /\ loadingHidden' = TRUE
    /\ UNCHANGED <<stream, finalHtml, tasks, resolverRuns, pc, formVars, metricVars,
                   promptVars>>
    /\ UNCHANGED <<generateBtnDisabled, statsHidden, actionsHidden, metricsRuns>>

NextStreamOlder == ChunkOlder \/ StreamEnd \/ StreamThrow

SpecStreamOlder == InitStream /\ [][NextStreamOlder]_vars

----------------------------------------------------------------------------
(* generateAndPlaceImagesParallel, lines 218-292 *)

\* the rendered markup the resolver may find in outputDiv: runs of text,
\* tokens of two placeholder kinds, and a bracketed text of another kind
MarkupNodes ==
    { TextNode("a"), Bracket("Image", "x"), Bracket("Featured Image", "y"),
      Bracket("Video", "z") }

Markups == UNION {[1..n -> MarkupNodes] : n \in 0..MaxNodes}

\* a mutation of placeholderRegex: every bracketed "[kind: caption]" matches
placeholderRegexAnyKind(node) == node.t = "bracket"

\* placeholderRegex, line 222, on one node of the markup
placeholderRegex(node) ==
    /\ node.t = "bracket"
    /\ node.kind \in {"Featured Image", "Image", "Infographic", "Diagram"}

\* the positions of the matches of line 223, and the matches in order
MatchIndices(html) == {n \in DOMAIN html : placeholderRegex(html[n])}

\* pIdx of line 229 / i of line 233 for the match at position n
Ordinal(html, n) == Cardinality({m \in MatchIndices(html) : m < n})

\* finalHtml.replace(placeholderRegex, ...), lines 228-231
ReplaceMatches(html) ==
    [n \in DOMAIN html |->
        IF placeholderRegex(html[n]) THEN Loading(Ordinal(html, n)) ELSE html[n]]

\* null of document.getElementById
NoElement == -1

\* a mutation of line 236: the first loading figure of the document is taken
GetFirstPlaceholder(div, i) ==
    IF \E n \in DOMAIN div : div[n].id = 0 THEN 0 ELSE NoElement

\* document.getElementById(`img-gen-${i}`), line 236
GetElementById(div, i) ==
    IF \E n \in DOMAIN div : div[n].id = i THEN i ELSE NoElement

\* el?.replaceWith(node), lines 266 and 274
ReplaceWith(div, el, node) ==
    IF el = NoElement THEN div
    ELSE [n \in DOMAIN div |-> IF div[n].id = el THEN node ELSE div[n]]

\* err.message || 'Safety Block', line 285
ShownMessage(message) == IF message = "" THEN "Safety Block" ELSE message

\* a mutation of the catch block: the figure is left as it is
CatchKeepLoading(div, el, message) == div

\* the catch block, lines 279-288
Catch(div, el, message) ==
    IF el = NoElement THEN div
    ELSE [n \in DOMAIN div |->
            IF div[n].id = el THEN Unavailable(el, ShownMessage(message))
            ELSE div[n]]

\* what an image request can come back with: image data, a candidate whose
\* finishReason is SAFETY, a response without image data, a rejection with
\* a rate-limit message, a rejection without message
Outcomes == {"data", "SAFETY", "nodata", "throw429", "throw"}

\* a mutation of the await of line 249: a rate-limit rejection is taken for
\* a response
ThrownUnknownOnly(o) == o = "throw"

\* the request is rejected: the await of line 249 or 260 throws
Thrown(o) == o \in {"throw429", "throw"}

\* err.message of a rejected request
ErrMessage(o) == IF o = "throw429" THEN "429 Too Many Requests" ELSE ""

\* a mutation of line 257: every response is followed by a second request
SecondAttemptAlways(o) == TRUE

\* a mutation of line 257: every response without image data is tried again
SecondAttemptUnlessData(o) == o # "data"

\* the test of line 257
SecondAttempt(o) == o = "SAFETY"

\* the task of line 233 for the match at position n, up to its first await
NewTask(html, div, n) ==
    [type |-> html[n].kind, caption |-> html[n].s,
     el |-> GetElementById(div, Ordinal(html, n)),
     pc |-> "timer", requests |-> 0, outcomes |-> <<>>]

\* the matches of line 223 as positions in document order
RECURSIVE MatchSeq(_, _)
MatchSeq(html, n) ==
    IF n > Len(html) THEN <<>>
    ELSE (IF placeholderRegex(html[n]) THEN <<n>> ELSE <<>>) \o MatchSeq(html, n + 1)

InitImages ==
    /\ stream = <<>>
    /\ pos = 0
    /\ buffer = <<>>
    /\ articleJsonLd = Null
    /\ articleMetaDescription = Null
    /\ cleanText = <<>>
    /\ metaShown = FALSE
    /\ jsonLdExtractions = 0
    /\ metaExtractions = 0
    /\ split = FALSE
    /\ outputDiv \in Markups
    /\ finalHtml = <<>>
    /\ tasks = <<>>
    /\ resolverRuns = 0
    /\ generateBtnDisabled = TRUE
    /\ loadingHidden \in BOOLEAN
    /\ outputDiv # <<>> => loadingHidden
    /\ statsHidden = TRUE
    /\ actionsHidden = TRUE
    /\ metricsRuns = 1
    /\ keyword = <<"k">>
    /\ apiKey = TRUE
    /\ submits = 1
    /\ streamRequests = 1
    /\ innerText = <<>>
    /\ readability = NotComputed
    /\ innerHTML = <<>>
    /\ seo = NotComputed
    /\ formData = EmptyForm
    /\ prompt = <<>>
    /\ pc = "streamed"

\* the call of line 199 up to `await Promise.allSettled(tasks)` or to the
\* return of line 225; each task runs up to its setTimeout, line 247
generateAndPlaceImagesParallel ==
    /\ pc = "streamed"
    /\ resolverRuns' = resolverRuns + 1
    /\ finalHtml' = outputDiv
    /\ LET matches == MatchSeq(outputDiv, 1)
           div == ReplaceMatches(outputDiv)
       IN  IF Len(matches) = 0
           THEN /\ pc' = "resolved"
                /\ UNCHANGED <<outputDiv, tasks>>
           ELSE /\ outputDiv' = div
                /\ tasks' = [i \in 1..Len(matches) |->
                                NewTask(outputDiv, div, matches[i])]
                /\ pc' = "images"
    /\ UNCHANGED <<streamVars, uiVars, formVars, metricVars, promptVars>>

\* a mutation of line 247: task i waits until the tasks before it have
\* placed their images
TimerDueAfterImages(ts, i) ==
    /\ ts[i + 1].pc = "timer"
    /\ \A j \in 0..(i - 1) :
          ts[j + 1].pc = "done" /\ ts[j + 1].outcomes[Len(ts[j + 1].outcomes)] = "data"

\* setTimeout(r, i * 300), line 247: the timer of task i is pending and no
\* timer with a shorter delay is
TimerDue(ts, i) ==
    /\ ts[i + 1].pc = "timer"
    /\ \A j \in 0..(i - 1) : ts[j + 1].pc # "timer"

\* the timer of task i (0-based, as in the source) fires and the first
\* request is sent, lines 247-253; timers fire in the order of their delays
TimerFires(i) ==
    /\ pc = "images"
    /\ TimerDue(tasks, i)
    /\ tasks' = [tasks EXCEPT ![i + 1].pc = "await1", ![i + 1].requests = 1]
    /\ UNCHANGED <<streamVars, outputDiv, finalHtml, resolverRuns, pc, uiVars, formVars, metricVars, promptVars>>

\* the first request of task i comes back, lines 255-288
Response1(i, o) ==
    /\ pc = "images"
    /\ tasks[i + 1].pc = "await1"
    /\ LET task == tasks[i + 1]
           seen == Append(task.outcomes, o)
       IN  IF Thrown(o)
           THEN /\ outputDiv' = Catch(outputDiv, task.el, ErrMessage(o))
                /\ tasks' = [tasks EXCEPT ![i + 1].pc = "done",
                                          ![i + 1].outcomes = seen]
           ELSE IF SecondAttempt(o)
           THEN /\ tasks' = [tasks EXCEPT ![i + 1].pc = "await2",
                                          ![i + 1].requests = 2,
                                          ![i + 1].outcomes = seen]
                /\ UNCHANGED outputDiv
           ELSE IF o = "data"
           THEN /\ outputDiv' = ReplaceWith(outputDiv, task.el,
                                            renderImage(task.caption))
                /\ tasks' = [tasks EXCEPT ![i + 1].pc = "done",
                                          ![i + 1].outcomes = seen]
           ELSE /\ outputDiv' = Catch(outputDiv, task.el,
                                      "No visual data in response.")
                /\ tasks' = [tasks EXCEPT ![i + 1].pc = "done",
                                          ![i + 1].outcomes = seen]
    /\ UNCHANGED <<streamVars, finalHtml, resolverRuns, pc, uiVars, formVars, metricVars, promptVars>>

\* the second request of task i comes back, lines 260-270 and 279-288
Response2(i, o) ==
    /\ pc = "images"
    /\ tasks[i + 1].pc = "await2"
    /\ LET task == tasks[i + 1]
       IN  IF Thrown(o)
           THEN outputDiv' = Catch(outputDiv, task.el, ErrMessage(o))
           ELSE IF o = "data"
           THEN outputDiv' = ReplaceWith(outputDiv, task.el,
                                         renderImage(task.caption))
           ELSE outputDiv' = Catch(outputDiv, task.el,
                                   "Blocked by content safety filters.")
    /\ tasks' = [tasks EXCEPT ![i + 1].pc = "done",
                              ![i + 1].outcomes = Append(@, o)]
    /\ UNCHANGED <<streamVars, finalHtml, resolverRuns, pc, uiVars, formVars, metricVars, promptVars>>

\* a mutation of line 291: the tasks are not awaited
SettledUnawaited(ts) == TRUE

\* line 291: every promise of Promise.allSettled(tasks) has settled
Settled(ts) == \A i \in DOMAIN ts : ts[i].pc = "done"

\* Promise.allSettled(tasks) resolves and the function returns, lines 291-292
AllSettled ==
    /\ pc = "images"
    /\ Settled(tasks)
    /\ pc' = "resolved"
    /\ UNCHANGED <<streamVars, imageVars, uiVars, formVars, metricVars, promptVars>>

NextImages ==
    \/ generateAndPlaceImagesParallel
    \/ \E i \in 0..(Len(tasks) - 1) : TimerFires(i)
    \/ \E i \in 0..(Len(tasks) - 1) : \E o \in Outcomes : Response1(i, o)
    \/ \E i \in 0..(Len(tasks) - 1) : \E o \in Outcomes : Response2(i, o)
    \/ AllSettled

SpecImages == InitImages /\ [][NextImages]_vars

\* the resolver when timers fire and every image request comes back
SpecImagesLive ==
    /\ SpecImages
    /\ WF_vars(generateAndPlaceImagesParallel)
    /\ WF_vars(AllSettled)
    /\ \A i \in 0..(MaxNodes - 1) :
          /\ WF_vars(i < Len(tasks) /\ TimerFires(i))
          /\ WF_vars(i < Len(tasks) /\ \E o \in Outcomes : Response1(i, o))
          /\ WF_vars(i < Len(tasks) /\ \E o \in Outcomes : Response2(i, o))

----------------------------------------------------------------------------
(* The submit handler, lines 83-216 *)

\* submit events are counted up to MaxSubmits
MaxSubmits == 2

\* what the primary-keyword field may hold at a submission
Keywords == {<<>>, <<" ">>, <<"k">>}

\* the responses the text stream may deliver to the handler
Responses ==
    { <<>>,
      <<"a">>,
      metaStart \o <<"c", " ">> \o metaEnd \o <<"a", "[Image: x]">>,
      <<"[Featured Image: y]", "a", "[Image: x]">>,
      jsonLdStart \o <<" ", "c">> \o jsonLdEnd \o <<"[Video: z]">> }

\* the box of line 93
KeyMissingBox == [t |-> "error-box", kind |-> "", s |-> "Key Missing", id |-> -1]

\* a mutation of line 87: the field is not trimmed
IsEmptyUntrimmed(kw) == kw = <<>>

\* lines 87-90: the trimmed keyword is empty
IsBlank(kw) == Trim(kw) = <<>>

\* a mutation of lines 98-99: the value of the last request is kept
KeepValue(v) == v

\* lines 98-99: articleJsonLd = null; articleMetaDescription = null
ResetValue(v) == Null

\* the page is loaded and nothing has been submitted
Init ==
    /\ stream = <<>>
    /\ pos = 0
    /\ buffer = <<>>
    /\ articleJsonLd = Null
    /\ articleMetaDescription = Null
    /\ cleanText = <<>>
    /\ metaShown = FALSE
    /\ jsonLdExtractions = 0
    /\ metaExtractions = 0
    /\ split = FALSE
    /\ outputDiv = <<>>
    /\ finalHtml = <<>>
    /\ tasks = <<>>
    /\ resolverRuns = 0
    /\ generateBtnDisabled = FALSE
    /\ loadingHidden = TRUE
    /\ statsHidden = TRUE
    /\ actionsHidden = TRUE
    /\ metricsRuns = 0
    /\ keyword = <<>>
    /\ apiKey \in BOOLEAN
    /\ submits = 0
    /\ streamRequests = 0
    /\ innerText = <<>>
    /\ readability = NotComputed
    /\ innerHTML = <<>>
    /\ seo = NotComputed
    /\ formData = EmptyForm
    /\ prompt = <<>>
    /\ pc = "idle"

\* a submit event with the keyword field holding kw, lines 83-115: the
\* handler up to its first await.  The browser does not submit a form whose
\* submit button is disabled.
Submit(kw) ==
    /\ ~generateBtnDisabled
    /\ submits < MaxSubmits
    /\ submits' = submits + 1
    /\ keyword' = kw
    /\ UNCHANGED <<apiKey, metricVars, promptVars>>
    /\ IF IsBlank(kw)
       THEN UNCHANGED <<streamVars, imageVars, uiVars, streamRequests, pc>>
       ELSE IF ~apiKey
       THEN /\ outputDiv' = <<KeyMissingBox>>
            /\ UNCHANGED <<streamVars, finalHtml, tasks, resolverRuns, uiVars,
                           streamRequests, pc>>
       ELSE /\ articleJsonLd' = ResetValue(articleJsonLd)
            /\ articleMetaDescription' = ResetValue(articleMetaDescription)
            /\ outputDiv' = <<>>
            /\ loadingHidden' = FALSE
            /\ actionsHidden' = TRUE
            /\ statsHidden' = TRUE
            /\ metaShown' = FALSE
            /\ generateBtnDisabled' = DisabledAtReset
            /\ streamRequests' = streamRequests + 1
            /\ pc' = "opening"
            \* a new invocation: its locals and the counts kept per request
            /\ stream' = <<>>
            /\ pos' = 0
            /\ buffer' = <<>>
            /\ cleanText' = <<>>
            /\ split' = FALSE
            /\ finalHtml' = <<>>
            /\ tasks' = <<>>
            /\ jsonLdExtractions' = 0
            /\ metaExtractions' = 0
            /\ metricsRuns' = 0
            /\ resolverRuns' = 0

\* generateContentStream resolves with a stream that will deliver text,
\* lines 115-131
Open(text) ==
    /\ pc = "opening"
    /\ stream' = text
    /\ pos' = 0
    /\ buffer' = <<>>
    /\ pc' = "stream"
    /\ UNCHANGED <<articleJsonLd, articleMetaDescription, cleanText, metaShown,
                   jsonLdExtractions, metaExtractions, split>>
    /\ UNCHANGED <<imageVars, uiVars, formVars, metricVars, promptVars>>

\* generateAndPlaceImagesParallel has returned: lines 201-202, then finally,
\* lines 212-215
Finish ==
    /\ pc = "resolved"
    /\ statsHidden' = FALSE
    /\ actionsHidden' = FALSE
    /\ generateBtnDisabled' = DisabledAtFinally
    /\ pc' = "done"
    /\ UNCHANGED <<streamVars, imageVars, formVars, metricVars, promptVars, loadingHidden, metricsRuns>>

Next ==
    \/ \E kw \in Keywords : Submit(kw)
    \/ \E text \in Responses : Open(text)
    \/ Chunk
    \/ StreamEnd
    \/ StreamThrow
    \/ generateAndPlaceImagesParallel
    \/ \E i \in 0..(Len(tasks) - 1) : TimerFires(i)
    \/ \E i \in 0..(Len(tasks) - 1) : \E o \in Outcomes : Response1(i, o)
    \/ \E i \in 0..(Len(tasks) - 1) : \E o \in Outcomes : Response2(i, o)
    \/ AllSettled
    \/ Finish

Spec == Init /\ [][Next]_vars

\* a step that brings a running request nearer to its end: the stream is
\* opened, the stream ends or throws, and the steps of the image phase
HandlerStep ==
    \/ \E text \in Responses : Open(text)
    \/ StreamEnd
    \/ StreamThrow
    \/ generateAndPlaceImagesParallel
    \/ \E i \in 0..(Len(tasks) - 1) : TimerFires(i)
    \/ \E i \in 0..(Len(tasks) - 1) : \E o \in Outcomes : Response1(i, o)
    \/ \E i \in 0..(Len(tasks) - 1) : \E o \in Outcomes : Response2(i, o)
    \/ AllSettled
    \/ Finish

\* the handler when the stream and every image request terminate: the
\* stream does not deliver chunks for ever without ending or throwing, and
\* timers, responses and continuations are not withheld for ever
SpecLive == Spec /\ WF_vars(HandlerStep)

----------------------------------------------------------------------------
(* calculateReadability, lines 311-316.  A text is a sequence of           *)
(* characters; a number is Infinity or the fraction num / den of hundredths *)

\* a text has at most MaxChars characters
MaxChars == 4

\* a vowel, a consonant, white space and a sentence terminator
Chars == {"a", "b", " ", "."}

CharTexts == UNION {[1..n -> Chars] : n \in 0..MaxChars}

\* [aeiouy] with the flag i, and [.!?]
IsVowel(c) == c \in {"a", "e", "i", "o", "u", "y", "A", "E", "I", "O", "U", "Y"}
IsTerminator(c) == c \in {".", "!", "?"}

\* the first index of text from i on that is white space (or is not, for
\* ws = FALSE); Len(text) + 1 when there is none
RECURSIVE NextIndex(_, _, _)
NextIndex(text, i, ws) ==
    IF i > Len(text) THEN Len(text) + 1
    ELSE IF IsSpace(text[i]) = ws THEN i
    ELSE NextIndex(text, i + 1, ws)

\* text.split(/\s+/) from index i on: the pieces between the runs of white
\* space, empty pieces at the ends included
RECURSIVE SplitFrom(_, _)
SplitFrom(text, i) ==
    LET j == NextIndex(text, i, TRUE)
    IN  IF j > Len(text) THEN <<SubSeq(text, i, Len(text))>>
        ELSE <<SubSeq(text, i, j - 1)>> \o SplitFrom(text, NextIndex(text, j, FALSE))

Split(text) == SplitFrom(text, 1)

\* the number of matches of /[aeiouy]+/gi in w, of /[.!?]+/g in text
VowelRuns(w) ==
    Cardinality({i \in DOMAIN w : IsVowel(w[i]) /\ (i = 1 \/ ~IsVowel(w[i - 1]))})
TerminatorRuns(text) ==
    Cardinality({i \in DOMAIN text :
                    IsTerminator(text[i]) /\ (i = 1 \/ ~IsTerminator(text[i - 1]))})

\* n || 1
OrOne(n) == IF n = 0 THEN 1 ELSE n

\* the reduce of line 314 over the pieces
RECURSIVE Syllables(_)
Syllables(pieces) ==
    IF pieces = <<>> THEN 0
    ELSE OrOne(VowelRuns(Head(pieces))) + Syllables(Tail(pieces))

\* calculateReadability, lines 311-316:
\* 0.39 * (words / sentences) + 11.8 * (syllables / words) - 15.59, in
\* hundredths and over the denominator sentences * words; syllables is at
\* least 1, so without words the quotient syllables / words is Infinity
calculateReadability(text) ==
    LET pieces == Split(text)
        words == Cardinality({i \in DOMAIN pieces : Len(pieces[i]) > 0})
        sentences == OrOne(TerminatorRuns(text))
        syllables == Syllables(pieces)
    IN  IF words = 0 THEN [kind |-> "Infinity", num |-> 1, den |-> 0]
        ELSE [kind |-> "finite",
              num |-> 39 * words * words + 1180 * syllables * sentences
                        - 1559 * sentences * words,
              den |-> sentences * words]

InitMetrics ==
    /\ stream = <<>>
    /\ pos = 0
    /\ buffer = <<>>
    /\ articleJsonLd = Null
    /\ articleMetaDescription = Null
    /\ cleanText = <<>>
    /\ metaShown = FALSE
    /\ jsonLdExtractions = 0
    /\ metaExtractions = 0
    /\ split = FALSE
    /\ outputDiv = <<>>
    /\ finalHtml = <<>>
    /\ tasks = <<>>
    /\ resolverRuns = 0
    /\ generateBtnDisabled = FALSE
    /\ loadingHidden = TRUE
    /\ statsHidden = TRUE
    /\ actionsHidden = TRUE
    /\ metricsRuns = 0
    /\ keyword = <<>>
    /\ apiKey = TRUE
    /\ submits = 0
    /\ streamRequests = 0
    /\ innerText \in CharTexts
    /\ readability = NotComputed
    /\ innerHTML = <<>>
    /\ seo = NotComputed
    /\ formData = EmptyForm
    /\ prompt = <<>>
    /\ pc = "idle"

\* const readability = calculateReadability(text), line 303
ApplyReadability ==
    /\ readability = NotComputed
    /\ readability' = calculateReadability(innerText)
    /\ UNCHANGED <<streamVars, imageVars, uiVars, formVars, innerText, innerHTML, seo,
                   promptVars, pc>>

NextMetrics == ApplyReadability

SpecMetrics == InitMetrics /\ [][NextMetrics]_vars

----------------------------------------------------------------------------
(* calculateSeoScore, lines 318-326.  The markup is a sequence of pieces of *)
(* innerHTML, the text and the keyword are sequences of characters          *)

\* a markup has at most MaxPieces pieces
MaxPieces == 3

\* the pieces the score looks for, and one it does not look for
Pieces == {"<h1", "<img", "href=\"http", "<p"}

SeoHtmls == UNION {[1..n -> Pieces] : n \in 0..MaxPieces}
SeoTexts == {<<>>, <<"k">>, <<"K">>, <<"a">>, <<"a", "K">>}
SeoKeywords == {<<>>, <<"k">>, <<"K">>}

\* toLowerCase of one character or piece
ToLower(c) ==
    CASE c = "K" -> "k"
      [] c = "A" -> "a"
      [] c = "<H1" -> "<h1"
      [] OTHER -> c

\* s.toLowerCase()
ToLowerCase(s) == [i \in DOMAIN s |-> ToLower(s[i])]

\* a mutation of calculateSeoScore: an image takes 20 points away
calculateSeoScoreImgPenalty(text, markup, keywordField) ==
    LET kw == ToLowerCase(keywordField)
        s1 == IF Includes(ToLowerCase(markup), <<"<h1">>) THEN 20 ELSE 0
        s2 == s1 + (IF Includes(ToLowerCase(text), kw) THEN 30 ELSE 0)
        s3 == s2 - (IF Includes(markup, <<"<img">>) THEN 20 ELSE 0)
        s4 == s3 + (IF Includes(markup, <<"href=\"http">>) THEN 30 ELSE 0)
    IN  [kind |-> "finite", num |-> Min(100, s4), den |-> 1]

\* calculateSeoScore, lines 318-326
calculateSeoScore(text, markup, keywordField) ==
    LET kw == ToLowerCase(keywordField)
        s1 == IF Includes(ToLowerCase(markup), <<"<h1">>) THEN 20 ELSE 0
        s2 == s1 + (IF Includes(ToLowerCase(text), kw) THEN 30 ELSE 0)
        s3 == s2 + (IF Includes(markup, <<"<img">>) THEN 20 ELSE 0)
        s4 == s3 + (IF Includes(markup, <<"href=\"http">>) THEN 30 ELSE 0)
    IN  [kind |-> "finite", num |-> Min(100, s4), den |-> 1]

InitSeo ==
    /\ stream = <<>>
    /\ pos = 0
    /\ buffer = <<>>
    /\ articleJsonLd = Null
    /\ articleMetaDescription = Null
    /\ cleanText = <<>>
    /\ metaShown = FALSE
    /\ jsonLdExtractions = 0
    /\ metaExtractions = 0
    /\ split = FALSE
    /\ outputDiv = <<>>
    /\ finalHtml = <<>>
    /\ tasks = <<>>
    /\ resolverRuns = 0
    /\ generateBtnDisabled = FALSE
    /\ loadingHidden = TRUE
    /\ statsHidden = TRUE
    /\ actionsHidden = TRUE
    /\ metricsRuns = 0
    /\ keyword \in SeoKeywords
    /\ apiKey = TRUE
    /\ submits = 0
    /\ streamRequests = 0
    /\ innerText \in SeoTexts
    /\ readability = NotComputed
    /\ innerHTML \in SeoHtmls
    /\ seo = NotComputed
    /\ formData = EmptyForm
    /\ prompt = <<>>
    /\ pc = "idle"

\* const seo = calculateSeoScore(text, outputDiv.innerHTML, formData), line 304
ApplySeoScore ==
    /\ seo = NotComputed
    /\ seo' = calculateSeoScore(innerText, innerHTML, keyword)
    /\ UNCHANGED <<streamVars, imageVars, uiVars, formVars, innerText, readability,
                   innerHTML, promptVars, pc>>

NextSeo == ApplySeoScore

SpecSeo == InitSeo /\ [][NextSeo]_vars

----------------------------------------------------------------------------
(* constructPrompt, lines 379-415.  A field is a sequence of characters, the *)
(* prompt a sequence of pieces; the fields that are only copied into the     *)
(* prompt (reader-problem, unique-insights, author-bio, the keyword lists)   *)
(* are left out                                                              *)

\* the values of the field multimedia-count
Counts == {<<>>, <<"0">>, <<"3">>, <<" ", "0">>}

Forms == [multimediaCount : Counts, addExternal : BOOLEAN,
          linkCount : {<<>>, <<"5">>}, sitemap : {<<>>, <<"u">>},
          slang : {<<>>, <<"s">>}]

\* get(id), line 380: (formData.get(id) as string || "").trim()
Get(field) == Trim(field)

\* constructPrompt, lines 379-415
constructPrompt(keywordField, form) ==
    LET kw == Get(keywordField)
        slang == Get(form.slang)
        linkCount == IF Get(form.linkCount) # <<>> THEN Get(form.linkCount) ELSE <<"3">>
        sitemap == Get(form.sitemap)
    IN  <<"Deliver your response in three distinct blocks:">>
        \o jsonLdStart \o <<"[Schema.org Article JSON]">> \o jsonLdEnd
        \o metaStart \o <<"[Meta Description (155 chars max)]">> \o metaEnd
        \o <<"[Full Article in Markdown]">>
        \o (IF form.addExternal
            THEN <<"You MUST include exactly">> \o linkCount \o <<"external hyperlinks">>
            ELSE <<"No external links required.">>)
        \o (IF sitemap # <<>> THEN <<"INTERNAL LINKING:">> \o sitemap ELSE <<>>)
        \o <<"Main Topic:">> \o kw
        \o (IF slang # <<>> THEN <<"Tone Override:">> \o slang ELSE <<>>)
        \o <<"Use H1, H2, and H3 headers.">>
        \o <<"Place exactly">> \o Get(form.multimediaCount)
        \o <<"visual placeholders:", "[Featured Image:">> \o kw
        \o <<"]", "or [Image: descriptive scene].">>
        \o <<"Begin generation now.">>

InitPrompt ==
    /\ stream = <<>>
    /\ pos = 0
    /\ buffer = <<>>
    /\ articleJsonLd = Null
    /\ articleMetaDescription = Null
    /\ cleanText = <<>>
    /\ metaShown = FALSE
    /\ jsonLdExtractions = 0
    /\ metaExtractions = 0
    /\ split = FALSE
    /\ outputDiv = <<>>
    /\ finalHtml = <<>>
    /\ tasks = <<>>
    /\ resolverRuns = 0
    /\ generateBtnDisabled = FALSE
    /\ loadingHidden = TRUE
    /\ statsHidden = TRUE
    /\ actionsHidden = TRUE
    /\ metricsRuns = 0
    /\ keyword \in {<<>>, <<" ">>, <<"k">>}
    /\ apiKey = TRUE
    /\ submits = 0
    /\ streamRequests = 0
    /\ innerText = <<>>
    /\ readability = NotComputed
    /\ innerHTML = <<>>
    /\ seo = NotComputed
    /\ formData \in Forms
    /\ prompt = <<>>
    /\ pc = "idle"

\* const prompt = constructPrompt(formData), line 111
ApplyConstructPrompt ==
    /\ prompt = <<>>
    /\ prompt' = constructPrompt(keyword, formData)
    /\ UNCHANGED <<streamVars, imageVars, uiVars, formVars, metricVars, formData, pc>>

NextPrompt == ApplyConstructPrompt

SpecPrompt == InitPrompt /\ [][NextPrompt]_vars

----------------------------------------------------------------------------
(* What the claims about the stream loop speak of *)

StartOf(k) == IF k = "jsonLd" THEN jsonLdStart ELSE metaStart
EndOf(k) == IF k = "jsonLd" THEN jsonLdEnd ELSE metaEnd
ValueOf(k) == IF k = "jsonLd" THEN articleJsonLd ELSE articleMetaDescription
Kinds == {"jsonLd", "meta"}
Delimiters == {jsonLdStart, jsonLdEnd, metaStart, metaEnd}

\* the chunks delivered so far, concatenated
Delivered == SubSeq(stream, 1, pos)

\* the loop has processed the last chunk of the response
LastChunkDone == pos = Len(stream) /\ pos > 0

Occurrences(t, d) == {i \in 0..(Len(t) - Len(d)) : OccursAt(t, d, i)}

HasDelimiter(t) == \E d \in Delimiters : Occurrences(t, d) # {}

\* t holds exactly one start and one end delimiter of kind k, the end after
\* the start
HasBlock(t, k) ==
    /\ Cardinality(Occurrences(t, StartOf(k))) = 1
    /\ Cardinality(Occurrences(t, EndOf(k))) = 1
    /\ \A i \in Occurrences(t, StartOf(k)) :
         \A j \in Occurrences(t, EndOf(k)) : i + Len(StartOf(k)) <= j

NoDelimiterOf(t, k) ==
    Occurrences(t, StartOf(k)) = {} /\ Occurrences(t, EndOf(k)) = {}

\* for a block of t: where its region starts, and the first index after it
RegionFrom(t, k) == CHOOSE i \in Occurrences(t, StartOf(k)) : TRUE
RegionTo(t, k) == (CHOOSE j \in Occurrences(t, EndOf(k)) : TRUE) + Len(EndOf(k))

\* the text strictly between the delimiters of t's block of kind k
Inner(t, k) == SubSeq(t, RegionFrom(t, k) + Len(StartOf(k)) + 1,
                      RegionTo(t, k) - Len(EndOf(k)))

\* the 0-based indices of t that lie in its block of kind k
BlockIndices(t, k) ==
    IF HasBlock(t, k) THEN RegionFrom(t, k)..(RegionTo(t, k) - 1) ELSE {}

\* t from index p on, without the indices in drop
RECURSIVE Keep(_, _, _)
Keep(t, drop, p) ==
    IF p >= Len(t) THEN <<>>
    ELSE (IF p \in drop THEN <<>> ELSE <<t[p + 1]>>) \o Keep(t, drop, p + 1)

\* t without its blocks
Prose(t) == Keep(t, BlockIndices(t, "jsonLd") \cup BlockIndices(t, "meta"), 0)

\* t honours the delimiter syntax: of each kind no delimiter at all or one
\* block, the blocks not nested, and no delimiter in the prose around them
WellFormed(t) ==
    /\ \A k \in Kinds : NoDelimiterOf(t, k) \/ HasBlock(t, k)
    /\ (HasBlock(t, "jsonLd") /\ HasBlock(t, "meta")) =>
         \/ RegionTo(t, "jsonLd") <= RegionFrom(t, "meta")
         \/ RegionTo(t, "meta") <= RegionFrom(t, "jsonLd")
    /\ ~HasDelimiter(Prose(t))

\* an atom of block content; prose is written with other atoms
IsContent(a) == a = "c"

HasContent(t) == \E i \in 1..Len(t) : IsContent(t[i])

\* 0-based index p of t lies strictly between a start delimiter of kind k
\* and an end delimiter of kind k
Enclosed(t, k, p) ==
    /\ \E i \in Occurrences(t, StartOf(k)) : i + Len(StartOf(k)) <= p
    /\ \E j \in Occurrences(t, EndOf(k)) : p < j

\* every content atom of t is enclosed by a delimiter pair
ContentLabelled(t) ==
    \A p \in 0..(Len(t) - 1) :
        IsContent(t[p + 1]) => \E k \in Kinds : Enclosed(t, k, p)

\* t ends with u; t starts with u
EndsWith(t, u) == Len(u) <= Len(t) /\ SubSeq(t, Len(t) - Len(u) + 1, Len(t)) = u
StartsWith(t, u) == Len(u) <= Len(t) /\ SubSeq(t, 1, Len(u)) = u

----------------------------------------------------------------------------
(* C1 *)

\* C1: chunk-boundary independence.  For a response that honours the
\* delimiter syntax and holds a block of kind k, however it is cut into
\* chunks: after the last chunk the value of kind k is the trimmed inner
\* content of the block, and the text handed to the renderer is the one the
\* loop computes when the whole response comes as a single chunk.
C1_ChunkBoundaryIndependence ==
    \A k \in Kinds :
        (LastChunkDone /\ WellFormed(stream) /\ HasBlock(stream, k))
            => /\ ValueOf(k) = Trim(Inner(stream, k))
               /\ cleanText = OnChunk(<<>>, Null, Null, stream).cleanText

\* a response with a META block whose content needs trimming and with
\* prose, delivered in more than one chunk
C1_Witness ==
    /\ LastChunkDone /\ split
    /\ WellFormed(stream) /\ HasBlock(stream, "meta")
    /\ Inner(stream, "meta") = <<"c", " ">>
    /\ articleMetaDescription = <<"c">>
    /\ cleanText # <<>>

----------------------------------------------------------------------------
(* C2 *)

----------------------------------------------------------------------------
(* C3 *)

\* the text handed to the renderer ends with the first n atoms of the
\* start delimiter of kind k, and the response goes on with the rest of it
ShowsPartialStart(k, n) ==
    /\ pos > 0
    /\ EndsWith(cleanText, SubSeq(StartOf(k), 1, n))
    /\ StartsWith(SubSeq(stream, pos + 1, Len(stream)),
                  SubSeq(StartOf(k), n + 1, Len(StartOf(k))))

\* C3: no text handed to the renderer shows the leading part of a start
\* delimiter whose remaining part arrives in a later chunk (stated for the
\* responses that honour the delimiter syntax).
C3_NoPartialStartShown ==
    WellFormed(stream) =>
        \A k \in Kinds : \A n \in 1..(Len(StartOf(k)) - 1) :
            ~ShowsPartialStart(k, n)

----------------------------------------------------------------------------
(* C4 *)

\* a start delimiter of kind k is in t and no end delimiter of kind k
Unterminated(t, k) ==
    Occurrences(t, StartOf(k)) # {} /\ Occurrences(t, EndOf(k)) = {}

\* apart from unterminated blocks t honours the delimiter syntax
WellFormedButOpen(t) ==
    \A k \in Kinds : NoDelimiterOf(t, k) \/ HasBlock(t, k) \/ Unterminated(t, k)

\* the index of the first start delimiter in t; Len(t) when it has none
FirstStart(t) ==
    LET starts == Occurrences(t, jsonLdStart) \cup Occurrences(t, metaStart)
    IN  IF starts = {} THEN Len(t)
        ELSE CHOOSE i \in starts : \A j \in starts : i <= j

\* C4 as claimed: when the stream has ended with a start delimiter of kind
\* k and no end delimiter of kind k, the value of kind k is absent, the
\* text handed to the renderer is the buffer cut just before the start
\* delimiter of kind k, and the handler is on its normal path (stated for
\* the responses that have no other flaw than unterminated blocks).
C4_TruncatedBeforeThatStart ==
    \A k \in Kinds :
        (pc = "streamed" /\ WellFormedButOpen(stream) /\ Unterminated(stream, k))
            => /\ ValueOf(k) = Null
               /\ cleanText = ReplaceTail(buffer, StartOf(k))
               /\ outputDiv = MarkedParse(cleanText)

\* C4, amended: when the stream has ended with a start delimiter of kind k
\* and no end delimiter of kind k, the value of kind k is absent, the
\* handler is on its normal path (the output is the rendered text, not the
\* error box), and the text handed to the renderer holds no start delimiter
\* of kind k; when the response has no other flaw than unterminated blocks,
\* that text is the buffer cut just before the first start delimiter left
\* in it (the one of kind k, unless an unterminated start delimiter of the
\* other kind comes first).
C4_TruncatedBeforeFirstOpenStart ==
    \A k \in Kinds :
        (pc = "streamed" /\ Unterminated(stream, k))
            => /\ ValueOf(k) = Null
               /\ outputDiv = MarkedParse(cleanText)
               /\ ~Includes(cleanText, StartOf(k))
               /\ WellFormedButOpen(stream)
                      => cleanText = SubSeq(buffer, 1, FirstStart(buffer))

\* the stream has ended after prose, a whole JSON-LD block and a META start
\* delimiter whose end never came: the prose is what is shown
C4_Witness ==
    /\ pc = "streamed"
    /\ WellFormedButOpen(stream) /\ Unterminated(stream, "meta")
    /\ HasBlock(stream, "jsonLd")
    /\ articleMetaDescription = Null
    /\ Includes(buffer, metaStart)
    /\ cleanText = <<"a">>

----------------------------------------------------------------------------
(* C5 *)

\* C5: once the value of a kind is set, no later chunk changes it and no
\* extraction for that kind is made again.
C5_SetOnce ==
    [][ /\ articleJsonLd # Null =>
             /\ articleJsonLd' = articleJsonLd
             /\ jsonLdExtractions' = jsonLdExtractions
        /\ articleMetaDescription # Null =>
             /\ articleMetaDescription' = articleMetaDescription
             /\ metaExtractions' = metaExtractions ]_vars

----------------------------------------------------------------------------
(* C6 *)

\* x is a subsequence of y: the atoms of x are in y in the same order
RECURSIVE IsSubsequence(_, _)
IsSubsequence(x, y) ==
    IF x = <<>> THEN TRUE
    ELSE IF y = <<>> THEN FALSE
    ELSE IF Head(x) = Head(y) THEN IsSubsequence(Tail(x), Tail(y))
    ELSE IsSubsequence(x, Tail(y))

\* 0-based index p of t lies in a start-delimiter..end-delimiter region of
\* kind k, the delimiters included
InRegion(t, k, p) ==
    /\ \E i \in Occurrences(t, StartOf(k)) : i <= p
    /\ \E j \in Occurrences(t, EndOf(k)) : p < j + Len(EndOf(k))

\* 0-based index p of t lies in an occurrence of a delimiter
InDelimiter(t, p) ==
    \E d \in Delimiters : \E i \in Occurrences(t, d) : i <= p /\ p < i + Len(d)

\* the prose of t: its atoms outside every region and outside every
\* delimiter
Outside(t) ==
    Keep(t, {p \in 0..(Len(t) - 1) :
                InDelimiter(t, p) \/ \E k \in Kinds : InRegion(t, k, p)}, 0)

\* C6: after each chunk every atom of prose received outside a start..end
\* region is still in the buffer, in its original order.
C6_NoProseDropped == IsSubsequence(Outside(Delivered), buffer)

----------------------------------------------------------------------------
(* C7 *)

\* C7: order independence.  For a response that honours the delimiter
\* syntax and holds both blocks, in either order and with prose anywhere
\* around them: after the last chunk both values are the trimmed inner
\* contents and the text handed to the renderer is the response without
\* the two blocks.
C7_OrderIndependence ==
    (LastChunkDone /\ WellFormed(stream)
       /\ HasBlock(stream, "jsonLd") /\ HasBlock(stream, "meta"))
        => /\ articleJsonLd = Trim(Inner(stream, "jsonLd"))
           /\ articleMetaDescription = Trim(Inner(stream, "meta"))
           /\ cleanText = Prose(stream)

\* the META block came before the JSON-LD block with prose between them,
\* all in one chunk
C7_Witness ==
    /\ LastChunkDone /\ ~split
    /\ WellFormed(stream)
    /\ HasBlock(stream, "jsonLd") /\ HasBlock(stream, "meta")
    /\ RegionTo(stream, "meta") < RegionFrom(stream, "jsonLd")
    /\ articleJsonLd = <<"c">> /\ articleMetaDescription = <<"c">>
    /\ cleanText = <<"a">>

----------------------------------------------------------------------------
(* What the claims about the placeholder resolver speak of *)

\* a placeholder token: a bracketed [Kind: Caption] marker of a visual kind
PlaceholderKinds == {"Featured Image", "Image", "Infographic", "Diagram"}
IsPlaceholderToken(node) == node.t = "bracket" /\ node.kind \in PlaceholderKinds

\* the positions of the placeholder tokens of a markup
TokenPositions(html) == {n \in DOMAIN html : IsPlaceholderToken(html[n])}

\* image requests issued so far
RequestsIssued ==
    Cardinality({i \in DOMAIN tasks : tasks[i].requests >= 1})
    + Cardinality({i \in DOMAIN tasks : tasks[i].requests >= 2})

\* the anchor of token i (0-based) is a failure indicator
AnchorFailed(i) ==
    \E n \in DOMAIN outputDiv : outputDiv[n].id = i /\ outputDiv[n].t = "failed"

\* failure reasons that are not the rate-limit signal, as a request's outcome
NonRetryable == {"SAFETY", "nodata", "throw"}

----------------------------------------------------------------------------
(* C8 *)

\* C8: once generateAndPlaceImagesParallel has been called on a markup
\* without placeholder token, it has returned, it has created no task and
\* issued no image request, and outputDiv is the markup it found.
C8_NoTokenNoRequest ==
    (pc # "streamed" /\ TokenPositions(finalHtml) = {})
        => /\ pc = "resolved"
           /\ tasks = <<>>
           /\ RequestsIssued = 0
           /\ outputDiv = finalHtml

\* a markup with text and a bracketed text that is no token has been left
\* as it was
C8_Witness ==
    /\ pc = "resolved"
    /\ finalHtml = <<TextNode("a"), Bracket("Video", "z")>>
    /\ outputDiv = finalHtml
    /\ tasks = <<>>

----------------------------------------------------------------------------
(* C9 *)

\* C9: when generateAndPlaceImagesParallel has returned, the anchor at the
\* place of each of the N tokens is a visual or a failure indicator, there
\* is one finished task per token, and no figure is still loading.
C9_NoAnchorLeftLoading ==
    pc = "resolved"
        => /\ Len(tasks) = Cardinality(TokenPositions(finalHtml))
           /\ \A n \in TokenPositions(finalHtml) :
                  outputDiv[n].t \in {"image", "failed"}
           /\ \A n \in DOMAIN outputDiv : outputDiv[n].t # "loading"

\* two tokens: the first resolved by its second request, after a
\* content-safety finish; the second failed on a response without data and
\* settled before the first
C9_Witness ==
    /\ pc = "resolved"
    /\ Len(tasks) = 2
    /\ tasks[1].outcomes = <<"SAFETY", "data">>
    /\ tasks[2].outcomes = <<"nodata">>
    /\ outputDiv[1].t = "image"
    /\ outputDiv[2].t = "failed"

----------------------------------------------------------------------------
(* C10 *)

----------------------------------------------------------------------------
(* C11 *)

\* the failure indicator of token i (0-based) shows this reason
AnchorShows(i, message) ==
    \E n \in DOMAIN outputDiv : outputDiv[n] = Unavailable(i, message)

----------------------------------------------------------------------------
(* C12 *)

\* the last outcome of task i (1-based) is a failure
FailedTask(i) ==
    /\ tasks[i].pc = "done"
    /\ tasks[i].outcomes[Len(tasks[i].outcomes)] # "data"

\* C12: whatever tasks fail, every task issues its request and comes to its
\* end, and generateAndPlaceImagesParallel returns, and returns only when
\* all tasks are over; it never ends in the catch block of the handler.
C12_TasksIndependent ==
    /\ \A i \in 0..(MaxNodes - 1) :
          [](pc = "images" /\ i < Len(tasks)
               => <>(/\ i < Len(tasks)
                     /\ tasks[i + 1].requests >= 1
                     /\ tasks[i + 1].pc = "done"))
    /\ [](pc = "images" => <>(pc = "resolved"))
    /\ [](pc = "resolved" => \A i \in DOMAIN tasks : tasks[i].pc = "done")
    /\ [](pc # "failed")

\* the first of two tokens has failed for good and the second has its
\* image, the function has returned
C12_Witness ==
    /\ pc = "resolved"
    /\ Len(tasks) = 2
    /\ FailedTask(1)
    /\ tasks[1].outcomes = <<"throw">>
    /\ tasks[2].outcomes = <<"data">>
    /\ outputDiv[2].t = "image"

----------------------------------------------------------------------------
(* C13 *)

\* the number of placeholder tokens of html before position n
TokenOrdinal(html, n) == Cardinality({m \in TokenPositions(html) : m < n})

\* a step of the image phase changes at most the loading anchor of the one
\* task that takes the step
WritesOwnAnchorOnly ==
    pc = "images" =>
        /\ Len(outputDiv') = Len(outputDiv)
        /\ \A n \in DOMAIN outputDiv :
              outputDiv'[n] # outputDiv[n] =>
                  \E i \in DOMAIN tasks :
                      /\ tasks'[i] # tasks[i]
                      /\ \A j \in DOMAIN tasks \ {i} : tasks'[j] = tasks[j]
                      /\ outputDiv[n] = Loading(i - 1)

\* in the final document every token's place holds the visual with that
\* token's caption or the failure indicator of that token, and the rest of
\* the markup is as it was
AnchorsInPlace ==
    pc = "resolved" =>
        /\ Len(outputDiv) = Len(finalHtml)
        /\ \A n \in DOMAIN finalHtml :
              IF n \in TokenPositions(finalHtml)
              THEN \/ outputDiv[n] = renderImage(finalHtml[n].s)
                   \/ /\ outputDiv[n].t = "failed"
                      /\ outputDiv[n].id = TokenOrdinal(finalHtml, n)
              ELSE outputDiv[n] = finalHtml[n]

\* C13: for every interleaving of the image tasks, a task writes only the
\* anchor with its own identifier, and in the final document the anchor at
\* the i-th token's place holds the visual with the i-th caption or the
\* i-th token's failure indicator.
C13_OwnAnchorOnly == [][WritesOwnAnchorOnly]_vars /\ []AnchorsInPlace

\* two tokens with different captions: the first has its visual, the
\* second its failure indicator
C13_Witness ==
    /\ pc = "resolved"
    /\ finalHtml = <<Bracket("Image", "x"), Bracket("Featured Image", "y")>>
    /\ outputDiv = <<renderImage("x"),
                     Unavailable(1, "No visual data in response.")>>

----------------------------------------------------------------------------
(* C14 *)

\* C14: no image request is issued and the resolver is not called while
\* the stream is being opened or consumed; the resolver is called at most
\* once in a request, exactly once in a request that has ended
\* successfully and never in one that has failed; and when it is called
\* the stream is exhausted and the markup it scans is the rendering of the
\* text computed from the last chunk.
C14_ResolverOnceAfterStream ==
    /\ pc \in {"opening", "stream"} =>
          resolverRuns = 0 /\ tasks = <<>> /\ RequestsIssued = 0
    /\ resolverRuns <= 1
    /\ pc \in {"images", "resolved", "done"} <=> resolverRuns = 1
    /\ RequestsIssued > 0 => resolverRuns = 1
    /\ resolverRuns = 1 =>
          /\ pos = Len(stream)
          /\ cleanText = OnChunk(<<>>, Null, Null, stream).cleanText
          /\ finalHtml = MarkedParse(cleanText)

\* a request has ended successfully: its response came in several chunks,
\* then the resolver ran once and issued the requests of two tokens
C14_Witness ==
    /\ pc = "done"
    /\ split
    /\ resolverRuns = 1
    /\ Len(tasks) = 2
    /\ RequestsIssued >= 2

----------------------------------------------------------------------------
(* C15 *)

\* the stream throws in this step, after prose has been rendered
ThrowsAfterProse == pc = "stream" /\ pc' = "failed" /\ outputDiv # <<>>

\* C15: when the stream throws after some chunks have been rendered, the
\* output afterwards still begins with what was rendered, and the error
\* box follows it.
C15_PartialOutputKept ==
    [][ThrowsAfterProse =>
           /\ Len(outputDiv') = Len(outputDiv) + 1
           /\ SubSeq(outputDiv', 1, Len(outputDiv)) = outputDiv
           /\ outputDiv'[Len(outputDiv')] = ErrorBox]_vars

----------------------------------------------------------------------------
(* C16 *)

\* C16: whenever the generate button is disabled, it is enabled again
\* later, the request having ended on the success path or on the failure
\* path; and after a stream failure the output is one error box.
C16_ButtonReenabled ==
    /\ [](generateBtnDisabled
            => <>(~generateBtnDisabled /\ pc \in {"done", "failed"}))
    /\ [](pc = "failed" => outputDiv = <<ErrorBox>> /\ ~generateBtnDisabled)
    /\ [](pc = "done" => ~generateBtnDisabled)

\* a stream has thrown after the META block was shown: the button is
\* enabled and the output is the error box
C16_Witness ==
    /\ pc = "failed"
    /\ metaShown
    /\ ~generateBtnDisabled
    /\ outputDiv = <<ErrorBox>>

----------------------------------------------------------------------------
(* C17 *)

\* kw is empty or made of white space only
WhitespaceOnly(kw) == \A i \in DOMAIN kw : kw[i] = " "

\* C17: a submit event whose keyword is empty or white space only issues no
\* request and leaves the output, the extracted values, the button and the
\* rest of the page as they were.
C17_BlankKeywordRejected ==
    [][(submits' # submits /\ WhitespaceOnly(keyword'))
          => UNCHANGED <<streamRequests, tasks, outputDiv, articleJsonLd,
                         articleMetaDescription, generateBtnDisabled, metaShown,
                         loadingHidden, statsHidden, actionsHidden, pc>>]_vars

\* after a request that rendered an article and extracted a summary, a
\* submission with a keyword of white space has left all of it in place
C17_Witness ==
    /\ submits = 2
    /\ keyword = <<" ">>
    /\ pc = "done"
    /\ streamRequests = 1
    /\ articleMetaDescription = <<"c">>
    /\ outputDiv # <<>>
    /\ ~generateBtnDisabled

----------------------------------------------------------------------------
(* C18 *)

\* an accepted request is between its reset and its end on the success path
InRequest == pc \in {"opening", "stream", "streamed", "images", "resolved", "done"}

\* C18: when an accepted submission waits for its stream to be opened, both
\* values are absent, the output and the buffer are empty and the summary
\* panel, the stats and the action controls are hidden; and in the course
\* of the request a value is present, or the summary panel shown, only
\* when the request's own stream has delivered the block of that kind.
C18_ResetBeforeStream ==
    /\ pc = "opening" =>
          /\ articleJsonLd = Null /\ articleMetaDescription = Null
          /\ outputDiv = <<>> /\ buffer = <<>>
          /\ ~metaShown /\ statsHidden /\ actionsHidden
    /\ InRequest =>
          /\ \A k \in Kinds :
                ValueOf(k) # Null =>
                    /\ HasBlock(Delivered, k)
                    /\ ValueOf(k) = Trim(Inner(Delivered, k))
          /\ metaShown => HasBlock(Delivered, "meta")
    /\ pc \in {"stream", "streamed"} => outputDiv = MarkedParse(cleanText)

\* the second accepted submission waits for its stream, all reset
C18_Witness ==
    /\ pc = "opening"
    /\ streamRequests = 2
    /\ articleJsonLd = Null /\ articleMetaDescription = Null
    /\ outputDiv = <<>>
    /\ ~metaShown /\ statsHidden /\ actionsHidden

----------------------------------------------------------------------------
(* C19 *)

\* a request is between its reset and its finally block
Running == pc \in {"opening", "stream", "streamed", "images", "resolved"}

----------------------------------------------------------------------------
(* C20 *)

\* a text without a word
NearEmpty(text) == \A i \in DOMAIN text : IsSpace(text[i])

\* C20: calculateReadability returns 0 for a text without a word, and a
\* number that is not below 0 for every text.
C20_ReadabilityFloor ==
    readability # NotComputed =>
        /\ readability.kind = "finite"
        /\ readability.num >= 0
        /\ NearEmpty(innerText) => readability.num = 0

----------------------------------------------------------------------------
(* C21 *)

\* the inputs of calculateSeoScore
SeoInputs == SeoTexts \X SeoHtmls \X SeoKeywords

\* w, whatever the case of its letters, is a part of t
OccursIgnoringCase(t, w) ==
    \E i \in 0..Len(t) :
        /\ i + Len(w) <= Len(t)
        /\ \A k \in 1..Len(w) : ToLower(t[i + k]) = ToLower(w[k])

\* the scoring criteria an input satisfies
Criteria(in) ==
    {c \in {"heading", "keyword", "visual", "link"} :
        \/ c = "heading" /\ \E i \in DOMAIN in[2] : in[2][i] = "<h1"
        \/ c = "keyword" /\ OccursIgnoringCase(in[1], in[3])
        \/ c = "visual" /\ \E i \in DOMAIN in[2] : in[2][i] = "<img"
        \/ c = "link" /\ \E i \in DOMAIN in[2] : in[2][i] = "href=\"http"}

\* the criteria and the score of every input
CriteriaAndScores ==
    {<<Criteria(in), calculateSeoScore(in[1], in[2], in[3]).num>> : in \in SeoInputs}

\* C21: the score calculateSeoScore returns is an integer from 0 to 100, and
\* no input that satisfies the same criteria and more has a lower score.
C21_ScoreBoundedAndMonotone ==
    seo # NotComputed =>
        /\ seo.kind = "finite" /\ seo.den = 1 /\ seo.num \in 0..100
        /\ \A other \in CriteriaAndScores :
              /\ Criteria(<<innerText, innerHTML, keyword>>) \subseteq other[1]
              /\ Criteria(<<innerText, innerHTML, keyword>>) # other[1]
              => other[2] >= seo.num

\* a score has been computed for an input that satisfies three criteria and
\* lacks the embedded visual
C21_Witness ==
    /\ seo # NotComputed
    /\ seo.num = 80
    /\ Criteria(<<innerText, innerHTML, keyword>>) = {"heading", "keyword", "link"}

----------------------------------------------------------------------------
(* C22 *)

\* the prompt holds the directive that asks for visual placeholders
HasPlaceholderDirective(p) == \E i \in DOMAIN p : p[i] = "Place exactly"

\* the prompt names both delimiters of both blocks
HasBothDelimiterPairs(p) ==
    /\ Includes(p, jsonLdStart) /\ Includes(p, jsonLdEnd)
    /\ Includes(p, metaStart) /\ Includes(p, metaEnd)

\* C22: the prompt constructPrompt returns for a count of zero placeholders
\* holds no placeholder directive, the prompt for another count holds it, and
\* both hold both delimiter pairs.
C22_NoDirectiveForZero ==
    prompt # <<>> =>
        /\ Trim(formData.multimediaCount) = <<"0">> => ~HasPlaceholderDirective(prompt)
        /\ Trim(formData.multimediaCount) = <<"3">> => HasPlaceholderDirective(prompt)
        /\ HasBothDelimiterPairs(prompt)

----------------------------------------------------------------------------
(* C23 *)

\* the first start delimiter of kind k in t, and the first end delimiter of
\* kind k after it (-1 when there is none)
FirstStartAt(t, k) == IndexOf(t, StartOf(k))
FirstEndAfter(t, k) ==
    IF FirstStartAt(t, k) = -1 THEN -1
    ELSE IndexOfFrom(t, EndOf(k), FirstStartAt(t, k) + Len(StartOf(k)))

HasDelimitedRegion(t, k) == FirstEndAfter(t, k) # -1

\* the trimmed text strictly between the two, and t without the region from
\* the one through the other
TrimmedBetween(t, k) ==
    Trim(SubSeq(t, FirstStartAt(t, k) + Len(StartOf(k)) + 1, FirstEndAfter(t, k)))
WithoutRegion(t, k) ==
    SubSeq(t, 1, FirstStartAt(t, k))
        \o SubSeq(t, FirstEndAfter(t, k) + Len(EndOf(k)) + 1, Len(t))

\* this iteration extracts a block of kind k and none of the other kind
ExtractsOnly(k) ==
    IF k = "jsonLd"
    THEN jsonLdExtractions' = jsonLdExtractions + 1 /\ metaExtractions' = metaExtractions
    ELSE metaExtractions' = metaExtractions + 1 /\ jsonLdExtractions' = jsonLdExtractions

\* the buffer of this iteration after line 149
Appended == buffer \o SubSeq(stream, pos + 1, pos')

\* C23: an iteration that extracts a block sets its value to the trimmed text
\* strictly between the first start delimiter and the first end delimiter
\* after it, and removes from the buffer exactly the region from that start
\* delimiter through that end delimiter, whatever the buffer holds.
C23_ValueBetweenDelimiters ==
    [][\A k \in Kinds :
          ExtractsOnly(k) =>
              /\ HasDelimitedRegion(Appended, k)
              /\ ValueOf(k)' = TrimmedBetween(Appended, k)
              /\ buffer' = WithoutRegion(Appended, k)]_vars

----------------------------------------------------------------------------
(* C24 *)

\* C24: in the older loop, when the last chunk of a response that honours
\* the delimiter syntax and holds both blocks, in either order, has been
\* processed, both values are the trimmed inner content of their blocks.
C24_OlderLoopEitherOrder ==
    (/\ LastChunkDone
     /\ WellFormed(stream)
     /\ HasBlock(stream, "jsonLd") /\ HasBlock(stream, "meta"))
    => /\ articleJsonLd = Trim(Inner(stream, "jsonLd"))
       /\ articleMetaDescription = Trim(Inner(stream, "meta"))

----------------------------------------------------------------------------
(* C25 *)

\* C25: in the older loop, when the last chunk of a response that honours
\* the delimiter syntax has been processed, the buffer holds all of the
\* prose of the response, the prose before a block included.
C25_OlderLoopKeepsProse ==
    (LastChunkDone /\ WellFormed(stream)) => buffer = Prose(stream)

----------------------------------------------------------------------------
(* C26 *)

ExtractionsOf(k) == IF k = "jsonLd" THEN jsonLdExtractions ELSE metaExtractions

\* a complete block of kind k without content has been extracted from what
\* was delivered
EmptyBlockExtracted(k) ==
    /\ WellFormed(Delivered)
    /\ HasBlock(Delivered, k)
    /\ ExtractionsOf(k) = 1
    /\ ValueOf(k) = <<>>

\* C26: after a complete block whose inner content is empty or white space
\* has been extracted, no later chunk triggers an extraction of that kind
\* again or changes its value.
C26_EmptyBlockFilled ==
    [][\A k \in Kinds :
          EmptyBlockExtracted(k) =>
              /\ ExtractionsOf(k)' = ExtractionsOf(k)
              /\ ValueOf(k)' = ValueOf(k)]_vars

----------------------------------------------------------------------------
(* C27 *)

\* this step issues a request of the task of token i (1-based)
IssuesRequest(i) == tasks'[i].requests > tasks[i].requests

\* this step brings the task of token i its first response, and it is a
\* rejection or a response without image data
FirstResponseFails(i) ==
    /\ tasks[i].outcomes = <<>>
    /\ Len(tasks'[i].outcomes) = 1
    /\ tasks'[i].outcomes[1] \in {"nodata", "throw", "throw429"}

\* C27: no token ever has more than two image requests; a second request is
\* issued only in the step that receives a first response finished with
\* SAFETY; a first response that is a rejection or has no image data turns
\* the anchor into the failure indicator in that step, without a request.
C27_SecondRequestOnlyAfterSafety ==
    /\ [](\A i \in DOMAIN tasks : tasks[i].requests <= 2)
    /\ [][\A i \in DOMAIN tasks :
            /\ (IssuesRequest(i) /\ tasks[i].requests >= 1)
                  => /\ tasks[i].requests = 1
                     /\ tasks[i].outcomes = <<>>
                     /\ tasks'[i].outcomes = <<"SAFETY">>
            /\ FirstResponseFails(i)
                  => /\ ~IssuesRequest(i)
                     /\ tasks'[i].pc = "done"
                     /\ AnchorFailed(i - 1)']_vars

\* one token has failed after a single request without image data while
\* the other one has had its second request
C27_Witness ==
    /\ Len(tasks) = 2
    /\ tasks[1].outcomes = <<"nodata">>
    /\ tasks[1].requests = 1
    /\ tasks[1].pc = "done"
    /\ AnchorShows(0, "No visual data in response.")
    /\ tasks[2].outcomes = <<"SAFETY">>
    /\ tasks[2].requests = 2

----------------------------------------------------------------------------
(* C28 *)

\* the box of line 206 is what the page shows: the stream of this request
\* has thrown
StreamHasThrown == outputDiv = <<ErrorBox>>

\* C28: once the stream of a request has thrown, when it was opened or
\* between chunks, the handler has finished, no image task exists and no
\* image request has been issued, the resolver and updateMetrics have not
\* run, and the stats and the action controls are hidden.
C28_NothingAfterThrow ==
    StreamHasThrown =>
        /\ pc = "failed"
        /\ ~generateBtnDisabled
        /\ tasks = <<>> /\ RequestsIssued = 0 /\ resolverRuns = 0
        /\ metricsRuns = 0
        /\ statsHidden /\ actionsHidden

\* the second request of the page has thrown after a chunk from which a
\* block was extracted
C28_Witness ==
    /\ StreamHasThrown
    /\ pc = "failed"
    /\ streamRequests = 2
    /\ jsonLdExtractions = 1
    /\ statsHidden

----------------------------------------------------------------------------
(* C29 *)

\* an accepted request has finished: the handler has left finally
RequestFinished == pc \in {"done", "failed"} /\ ~generateBtnDisabled

\* C29: whenever an accepted request has finished, on the failure path or on
\* the success path, the loading indicator is hidden.
C29_LoadingHiddenWhenFinished == RequestFinished => loadingHidden

----------------------------------------------------------------------------
(* C30 *)

\* updateMetrics is called in this step
ComputesMetrics == metricsRuns' > metricsRuns

\* C30: updateMetrics has not run while the stream is opened or consumed and
\* has run exactly once from the end of the stream on; it runs when the
\* stream is exhausted, the rendering of the last chunk is in place and no
\* image task exists; and the stats and the action controls are visible
\* only in a finished request all of whose image tasks are over.
C30_MetricsOnceBeforeImages ==
    /\ [](/\ pc \in {"opening", "stream"} => metricsRuns = 0
          /\ pc \in {"streamed", "images", "resolved", "done"} => metricsRuns = 1
          /\ RequestsIssued > 0 => metricsRuns = 1
          /\ (~statsHidden \/ ~actionsHidden)
                => /\ pc = "done"
                   /\ ~statsHidden /\ ~actionsHidden
                   /\ \A i \in DOMAIN tasks : tasks[i].pc = "done")
    /\ [][ComputesMetrics =>
            /\ metricsRuns' = 1
            /\ pos = Len(stream)
            /\ outputDiv = MarkedParse(cleanText)
            /\ tasks = <<>> /\ tasks' = <<>>
            /\ resolverRuns = 0]_vars

\* a request has ended successfully with one token resolved to an image and
\* one failed: the metrics were computed once, the controls are visible
C30_Witness ==
    /\ pc = "done"
    /\ metricsRuns = 1
    /\ ~statsHidden /\ ~actionsHidden
    /\ Len(tasks) = 2
    /\ tasks[1].outcomes = <<"data">>
    /\ tasks[2].outcomes = <<"throw">>

====
